---- MODULE Spec2Model ----
(***************************************************************************)
(* A model of dk-face-extractor: the rectangle codec (int2base32.py), the  *)
(* crop geometry and the extraction run of dk_face_extractor.py (job       *)
(* building, pool workers running save_face, the main process collecting   *)
(* results and merging the manifest), and the cleanup pass (cleanup.py).   *)
(***************************************************************************)
EXTENDS Integers, Sequences, FiniteSets, TLC

VARIABLES
    \* ---- the rectangle codec, exercised on its own (SpecCodec)
    cpc,        \* "in" | "encoded" | "decoded"
    cn,         \* the integer handed to int2base32
    ctoken,     \* the token int2base32 returned (a sequence of symbols)
    cback,      \* what base32_to_int returned for ctoken
    \* ---- the crop geometry of save_face, exercised on its own (SpecCrop)
    gpc,        \* "in" | "boxed"
    gin,        \* [region |-> <<x, y, width, height>>, size |-> <<W, H>>]
    gbox,       \* the box handed to image.crop
    \* ---- the catalog, the filesystem and one extraction run (Spec)
    catalog,    \* the ids of the rows the query returns, as a set of indices of RowTable
    disk,       \* the files that exist, each an absolute path
    manifest,   \* the lines of the faces list (each without its newline)
    manifestExists,
    pc,         \* "idle" | "collect": main is in the r.get() loop of a run
    opt,        \* the options of the run in progress
    jobs,       \* the job list fetch_data_from_db returned
    jstate,     \* per job: "pending" | "extracting" | "done" | "raised" | "lost"
    idx,        \* the job whose result main waits for
    decodes,    \* open_image calls of the run in progress
    written,    \* files saved by the run in progress
    faults,     \* filesystem faults injected so far
    runs,       \* runs started so far
    append_parent,  \* -a/--append-parent, as the extractor is always invoked here
    since,      \* what happened since the latest run that completed
    lastRun     \* what the latest run did

codecVars == <<cpc, cn, ctoken, cback>>
cropVars == <<gpc, gin, gbox>>
runVars == <<catalog, disk, manifest, manifestExists, pc, opt, jobs, jstate, idx,
             decodes, written, faults, runs, append_parent, since, lastRun>>

\* ------------------------------------------------------------------ bounds

MaxN == 1100
MaxField == 3
MaxCoord == 5
MaxSide == 4
MaxImage == 4
MaxRows == 2
MaxRuns == 2
MaxFaults == 1

\* ------------------------------------------------------- int2base32.py

BASE32ALPHABET ==
    << "0", "1", "2", "3", "4", "5", "6", "7", "8", "9", "A", "B", "C", "D", "E", "F",
       "G", "H", "I", "J", "K", "L", "M", "N", "O", "P", "Q", "R", "S", "T", "U", "V" >>

\* s[::-1]
Reverse(s) == [i \in 1..Len(s) |-> s[Len(s) + 1 - i]]

\* the while loop of int2base32: res grows least significant symbol first
RECURSIVE Int2Base32Loop(_, _)
Int2Base32Loop(val, res) ==
    IF val < 32
    THEN Append(res, BASE32ALPHABET[val + 1])
    ELSE Int2Base32Loop(val \div 32, Append(res, BASE32ALPHABET[(val % 32) + 1]))

\* a plausible slip: the result is returned without res[::-1]
Int2Base32NoReverse(val) == Int2Base32Loop(val, <<>>)

int2base32(val) == Reverse(Int2Base32Loop(val, <<>>))

\* str.find on the alphabet: the 0-based index, -1 when absent
AlphabetFind(char) ==
    IF \E k \in 1..Len(BASE32ALPHABET) : BASE32ALPHABET[k] = char
    THEN (CHOOSE k \in 1..Len(BASE32ALPHABET) : BASE32ALPHABET[k] = char) - 1
    ELSE -1

RECURSIVE Pow32(_)
Pow32(i) == IF i = 0 THEN 1 ELSE 32 * Pow32(i - 1)

\* res += find(char) * 32**i over enumerate(reversed(val))
RECURSIVE Base32Sum(_, _)
Base32Sum(rev, i) ==
    IF i >= Len(rev) THEN 0
    ELSE AlphabetFind(rev[i + 1]) * Pow32(i) + Base32Sum(rev, i + 1)

base32_to_int(val) == Base32Sum(Reverse(val), 0)

\* str(n) for n >= 0: the decimal digits, most significant first
RECURSIVE DecStr(_)
DecStr(n) == IF n < 10 THEN <<n>> ELSE Append(DecStr(n \div 10), n % 10)

\* "".join(map(str, val))
RECURSIVE JoinDigits(_)
JoinDigits(val) ==
    IF val = <<>> THEN <<>> ELSE DecStr(Head(val)) \o JoinDigits(Tail(val))

\* int(s) for a string of decimal digits; int("") raises ValueError (-1 here)
RECURSIVE ParseInt(_, _)
ParseInt(s, acc) ==
    IF s = <<>> THEN acc ELSE ParseInt(Tail(s), 10 * acc + Head(s))

RegionNumber(val) == IF JoinDigits(val) = <<>> THEN -1 ELSE ParseInt(JoinDigits(val), 0)

encode_region(val) == int2base32(RegionNumber(val))

\* ------------------------------------------------------- the codec on its own

SmallRects == [1..4 -> 0..MaxField]

CodecInputs ==
    (0..MaxN) \cup {RegionNumber(r) : r \in SmallRects}
              \cup {RegionNumber(<<1, 23, 4, 5>>), RegionNumber(<<100, 100, 40, 90>>)}

CodecInit ==
    /\ cpc = "in"
    /\ cn \in CodecInputs
    /\ ctoken = <<>>
    /\ cback = -1

CodecIdle ==
    /\ cpc = "in"
    /\ cn = 0
    /\ ctoken = <<>>
    /\ cback = -1

Encode ==
    /\ cpc = "in"
    /\ ctoken' = int2base32(cn)
    /\ cpc' = "encoded"
    /\ UNCHANGED <<cn, cback>>
    /\ UNCHANGED <<cropVars, runVars>>

Decode ==
    /\ cpc = "encoded"
    /\ cback' = base32_to_int(ctoken)
    /\ cpc' = "decoded"
    /\ UNCHANGED <<cn, ctoken>>
    /\ UNCHANGED <<cropVars, runVars>>

\* --------------------------------------------- crop geometry (save_face)

\* ceil(sqrt(n)) for n >= 0
CeilSqrt(n) == CHOOSE s \in 0..n : s * s >= n /\ (s = 0 \/ (s - 1) * (s - 1) < n)

\* ceil(q / 10) for an integer q
CeilTenth(q) == -((-q) \div 10)

\* the four edges before clamping, in tenths of a pixel:
\* center -/+ square_width / 2 -/+ margin, margin = square_width / 10
EdgesTenths(region) ==
    LET x == region[1]
        y == region[2]
        width == region[3]
        height == region[4]
        square_width == CeilSqrt(width * height)
        cx == 10 * x + 5 * width
        cy == 10 * y + 5 * height
        half == 5 * square_width
        margin == square_width
    IN  << cx - half - margin, cy - half - margin,
           cx + half + margin, cy + half + margin >>

\* box = tuple(map(ceil, (x1 if x1 > 0 else 0, ..., x2 if x2 < W else W, ...)))
CropBox(region, size) ==
    LET e == EdgesTenths(region)
    IN  << CeilTenth(IF e[1] > 0 THEN e[1] ELSE 0),
           CeilTenth(IF e[2] > 0 THEN e[2] ELSE 0),
           CeilTenth(IF e[3] < 10 * size[1] THEN e[3] ELSE 10 * size[1]),
           CeilTenth(IF e[4] < 10 * size[2] THEN e[4] ELSE 10 * size[2]) >>

CropInputs ==
    { [region |-> <<x, y, w, h>>, size |-> <<iw, ih>>] :
        x \in 0..MaxCoord, y \in {0, MaxCoord}, w \in 1..MaxSide, h \in 1..MaxSide,
        iw \in 1..MaxImage, ih \in {MaxImage} }
    \cup { [region |-> <<100, 100, 40, 90>>, size |-> <<500, 500>>],
           [region |-> <<0, 0, 20, 20>>, size |-> <<100, 100>>] }

CropInit ==
    /\ gpc = "in"
    /\ gin \in CropInputs
    /\ gbox = <<0, 0, 0, 0>>

CropIdle ==
    /\ gpc = "in"
    /\ gin = [region |-> <<0, 0, 1, 1>>, size |-> <<1, 1>>]
    /\ gbox = <<0, 0, 0, 0>>

ComputeBox ==
    /\ gpc = "in"
    /\ gbox' = CropBox(gin.region, gin.size)
    /\ gpc' = "boxed"
    /\ UNCHANGED gin
    /\ UNCHANGED <<codecVars, runVars>>

\* ------------------------------------------------------------------ paths
\* A path is [abs, parts]: whether it starts at the root, and its components.
\* str(path) is the parts joined by "/", so two paths print alike exactly when
\* they are equal as records.

\* the working directory of both programs, /w
Cwd == <<"w">>

\* the values of -o/--output-dir both programs are run with: the default
\* "Faces", "./Faces" and "/w/Faces" name the same directory
OutputDirArgs ==
    { [abs |-> FALSE, parts |-> <<"Faces">>],
      [abs |-> FALSE, parts |-> <<".", "Faces">>],
      [abs |-> TRUE, parts |-> <<"w", "Faces">>] }

\* pathlib.Path(arg): "." components are dropped (".." ones are kept)
RECURSIVE DropDots(_)
DropDots(parts) ==
    IF parts = <<>> THEN <<>>
    ELSE IF Head(parts) = "." THEN DropDots(Tail(parts))
    ELSE <<Head(parts)>> \o DropDots(Tail(parts))

Path(arg) == [abs |-> arg.abs, parts |-> DropDots(arg.parts)]

\* p / name, and os.path.join(p, name) for a relative name
Join(p, name) == [p EXCEPT !.parts = Append(@, name)]

\* os.path.normpath on the parts of an absolute path
RECURSIVE Normparts(_, _)
Normparts(parts, acc) ==
    IF parts = <<>> THEN acc
    ELSE IF Head(parts) = "." THEN Normparts(Tail(parts), acc)
    ELSE IF Head(parts) = ".."
         THEN Normparts(Tail(parts),
                        IF acc = <<>> THEN acc ELSE SubSeq(acc, 1, Len(acc) - 1))
    ELSE Normparts(Tail(parts), Append(acc, Head(parts)))

\* os.path.abspath: the file a path names, as the parts below the root
Abspath(p) == Normparts(IF p.abs THEN p.parts ELSE Cwd \o p.parts, <<>>)

RECURSIVE CommonLen(_, _)
CommonLen(a, b) ==
    IF a = <<>> \/ b = <<>> \/ Head(a) # Head(b) THEN 0
    ELSE 1 + CommonLen(Tail(a), Tail(b))

\* os.path.relpath(p, "."): from the working directory to p
Relpath(p) ==
    LET start == Abspath([abs |-> FALSE, parts |-> <<".">>])
        target == Abspath(p)
        i == CommonLen(start, target)
        rel == [k \in 1..(Len(start) - i) |-> ".."] \o SubSeq(target, i + 1, Len(target))
    IN  [abs |-> FALSE, parts |-> IF rel = <<>> THEN <<".">> ELSE rel]

\* ---------------------------------------------------------------- catalog

\* stands for the one character U+2215 joining parent and tag
DIVISION_SLASH == "{U+2215}"

\* the text <rect .../> as its attribute="digits" matches, in order
RectXml(x, y, width, height) ==
    << [attr |-> "x", val |-> x], [attr |-> "y", val |-> y],
       [attr |-> "width", val |-> width], [attr |-> "height", val |-> height] >>

\* a rect text that lacks its height attribute
RectXmlNoHeight(x, y, width) ==
    << [attr |-> "x", val |-> x], [attr |-> "y", val |-> y],
       [attr |-> "width", val |-> width] >>

ImageP == [dir |-> <<"a">>, stem |-> "p", suffix |-> ".jpg"]
ImageBad == [dir |-> <<"a">>, stem |-> "bad", suffix |-> ".jpg"]

\* the images Image.open cannot decode
Corrupt == {ImageBad}

\* the rows the query can return: (Relpath, Rect, TagName, ParentTagName)
RowTable ==
    << [relpath |-> ImageP, rect |-> RectXml(1, 23, 4, 5), tag |-> "Alice", parent |-> "Family"],
       [relpath |-> ImageP, rect |-> RectXml(12, 3, 4, 5), tag |-> "Alice", parent |-> "Family"],
       [relpath |-> ImageP, rect |-> RectXml(2, 2, 6, 6), tag |-> "Alice", parent |-> "Family"],
       [relpath |-> ImageP, rect |-> RectXmlNoHeight(12, 3, 45), tag |-> "Alice", parent |-> "Family"],
       [relpath |-> ImageBad, rect |-> RectXml(7, 7, 8, 8), tag |-> "Alice", parent |-> "Family"] >>

\* -m/--mount
Mount == <<"mnt">>

\* RE.findall(rect) mapped through int: the values in the order they appear
parse_rect(rect) == [i \in 1..Len(rect) |-> rect[i].val]

\* cur.fetchall(): the catalog's rows in table order
RECURSIVE FetchAll(_, _)
FetchAll(k, ids) ==
    IF k > Len(RowTable) THEN <<>>
    ELSE (IF k \in ids THEN <<RowTable[k]>> ELSE <<>>) \o FetchAll(k + 1, ids)

\* the loop of fetch_data_from_db: one (image_path, face_region, tag_name) per row
fetch_data_from_db(ids, append_parent_tag_name) ==
    LET rows == FetchAll(1, ids)
    IN  [i \in 1..Len(rows) |->
            [image_path |-> [rows[i].relpath EXCEPT !.dir = Mount \o @],
             face_region |-> parse_rect(rows[i].rect),
             tag_name |-> IF append_parent_tag_name
                          THEN rows[i].parent \o DIVISION_SLASH \o rows[i].tag
                          ELSE rows[i].tag]]

\* -------------------------------------------------------------- save_face

RECURSIVE JoinStr(_)
JoinStr(symbols) ==
    IF symbols = <<>> THEN "" ELSE Head(symbols) \o JoinStr(Tail(symbols))

\* output_dir / tag_name
TagFolderPath(job, output_dir) == Join(output_dir, job.tag_name)

\* f"{image_path.stem}-{region_base32}.png"
OutputName(job) ==
    job.image_path.stem \o "-" \o JoinStr(encode_region(job.face_region)) \o ".png"

OutputPath(job, output_dir) == Join(TagFolderPath(job, output_dir), OutputName(job))

\* a plausible slip: the existing file is extracted again
SkipNever(overwrite, output_path, files) == FALSE

\* (not overwrite) and output_path.exists()
SkipExisting(overwrite, output_path, files) ==
    (~overwrite) /\ Abspath(output_path) \in files

\* a plausible slip: the list is rewritten from this run's paths alone
MergeOverwrite(old, paths) == paths

\* saved_faces = set(f.readlines()); saved_faces.update(saved_faces_paths)
MergeManifest(old, paths) == old \cup paths

\* ------------------------------------------------------- one extraction run

\* parser.parse_args(): --output-dir has type=Path, so opt.output_dir is
\* Path(arg); --overwrite is a flag
Options == {[output_dir |-> Path(arg), overwrite |-> ow] :
                arg \in OutputDirArgs, ow \in BOOLEAN}

NoOptions == [output_dir |-> Path([abs |-> FALSE, parts |-> <<"Faces">>]), overwrite |-> FALSE]

\* since the latest completed run: `ok` once there was one that nothing
\* disturbed (no crashed run after it, no file deleted), its options, and the
\* rows added to the catalog after it
NoSince == [ok |-> FALSE, opt |-> NoOptions, added |-> {}]

\* `after`: the value of since when the run started
NoRun ==
    [status |-> "none", opt |-> NoOptions, after |-> NoSince,
     manStart |-> {}, manEnd |-> {}, decodes |-> 0, written |-> {}]

\* the run in progress, as it ends with `status` and the list as given
EndOfRun(status, lines) ==
    [lastRun EXCEPT !.status = status, !.manEnd = lines,
                    !.decodes = decodes, !.written = written]

RunInit ==
    /\ catalog = {}
    /\ disk = {}
    /\ manifest = {}
    /\ manifestExists = FALSE
    /\ pc = "idle"
    /\ opt = NoOptions
    /\ jobs = <<>>
    /\ jstate = <<>>
    /\ idx = 0
    /\ decodes = 0
    /\ written = {}
    /\ faults = 0
    /\ runs = 0
    /\ append_parent \in BOOLEAN
    /\ since = NoSince
    /\ lastRun = NoRun

\* a tagged face region appears in the catalog between runs
AddRegion(k) ==
    /\ pc = "idle"
    /\ k \notin catalog
    /\ Cardinality(catalog) < MaxRows
    /\ catalog' = catalog \cup {k}
    /\ since' = IF since.ok THEN [since EXCEPT !.added = @ \cup {k}] ELSE since
    /\ UNCHANGED <<disk, manifest, manifestExists, pc, opt, jobs, jstate, idx,
                   decodes, written, faults, runs, append_parent, lastRun>>
    /\ UNCHANGED <<codecVars, cropVars>>

\* main up to the dispatch: the output directory is made, the jobs are fetched
\* and each is handed to the pool
StartRun(o) ==
    /\ pc = "idle"
    /\ runs < MaxRuns
    /\ runs' = runs + 1
    /\ opt' = o
    /\ jobs' = fetch_data_from_db(catalog, append_parent)
    /\ jstate' = [i \in 1..Len(jobs') |-> "pending"]
    /\ idx' = 1
    /\ pc' = "collect"
    /\ decodes' = 0
    /\ written' = {}
    /\ lastRun' = [NoRun EXCEPT !.status = "running", !.opt = o, !.after = since,
                                !.manStart = manifest]
    /\ since' = NoSince
    /\ UNCHANGED <<catalog, disk, manifest, manifestExists, faults, append_parent>>
    /\ UNCHANGED <<codecVars, cropVars>>

\* save_face up to its early return: the tag folder (directories are not part
\* of the state: mkdir(exist_ok=True) makes it or raises), the output path, the
\* test for an existing file
SaveFaceCheck(i) ==
    /\ pc = "collect"
    /\ i \in 1..Len(jobs)
    /\ jstate[i] = "pending"
    /\ LET output_path == OutputPath(jobs[i], opt.output_dir)
       IN  \/ \* tag_folder_path.mkdir raises (no permission, no space)
              /\ faults < MaxFaults
              /\ faults' = faults + 1
              /\ jstate' = [jstate EXCEPT ![i] = "raised"]
           \/ /\ jstate' = [jstate EXCEPT ![i] =
                    IF jobs[i].face_region = <<>> THEN "raised"   \* int("") raises
                    ELSE IF SkipExisting(opt.overwrite, output_path, disk) THEN "done"
                    ELSE "extracting"]
              /\ UNCHANGED faults
    /\ UNCHANGED <<catalog, disk, manifest, manifestExists, pc, opt, jobs, idx,
                   decodes, written, runs, append_parent, since, lastRun>>
    /\ UNCHANGED <<codecVars, cropVars>>

\* the rest of save_face: open_image, the crop, the save.  A failing open_image
\* ends in exit(), which ends the worker process: no result is ever set.
SaveFaceExtract(i) ==
    /\ pc = "collect"
    /\ i \in 1..Len(jobs)
    /\ jstate[i] = "extracting"
    /\ decodes' = decodes + 1
    /\ LET output_path == OutputPath(jobs[i], opt.output_dir)
           source == [jobs[i].image_path EXCEPT !.dir = SubSeq(@, Len(Mount) + 1, Len(@))]
       IN  IF source \in Corrupt
           THEN /\ jstate' = [jstate EXCEPT ![i] = "lost"]
                /\ UNCHANGED <<disk, written, faults>>
           ELSE IF Len(jobs[i].face_region) < 4
           THEN /\ jstate' = [jstate EXCEPT ![i] = "raised"]   \* face_region[3]: IndexError
                /\ UNCHANGED <<disk, written, faults>>
           ELSE \/ \* face_crop.save raises
                   /\ faults < MaxFaults
                   /\ faults' = faults + 1
                   /\ jstate' = [jstate EXCEPT ![i] = "raised"]
                   /\ UNCHANGED <<disk, written>>
                \/ /\ disk' = disk \cup {Abspath(output_path)}
                   /\ written' = written \cup {Abspath(output_path)}
                   /\ jstate' = [jstate EXCEPT ![i] = "done"]
                   /\ UNCHANGED faults
    /\ UNCHANGED <<catalog, manifest, manifestExists, pc, opt, jobs, idx,
                   runs, append_parent, since, lastRun>>
    /\ UNCHANGED <<codecVars, cropVars>>

\* the run is over: nothing of it is left
RunOver ==
    /\ pc' = "idle"
    /\ opt' = NoOptions
    /\ jobs' = <<>>
    /\ jstate' = <<>>
    /\ idx' = 0
    /\ decodes' = 0
    /\ written' = {}

\* one r.get() of the list comprehension of main: the result is taken, or the
\* job's exception is raised again in main, which ends the run with a traceback
\* and the list not written; main waits as long as there is neither
Collect ==
    /\ pc = "collect"
    /\ idx \in 1..Len(jobs)
    /\ \/ /\ jstate[idx] = "done"
          /\ idx' = idx + 1
          /\ UNCHANGED <<pc, opt, jobs, jstate, decodes, written, lastRun>>
       \/ /\ jstate[idx] = "raised"
          /\ lastRun' = EndOfRun("crashed", manifest)
          /\ RunOver
    /\ UNCHANGED <<catalog, disk, manifest, manifestExists, faults, runs, append_parent,
                   since>>
    /\ UNCHANGED <<codecVars, cropVars>>

\* str(r.get()) of each job, the lines of saved_faces_paths
SavedFacesPaths == {OutputPath(jobs[i], opt.output_dir) : i \in 1..Len(jobs)}

\* main after the loop: the pool is joined, the list is read, merged and written
WriteManifest ==
    /\ pc = "collect"
    /\ idx = Len(jobs) + 1
    /\ manifest' = MergeManifest(IF manifestExists THEN manifest ELSE {}, SavedFacesPaths)
    /\ manifestExists' = TRUE
    /\ lastRun' = EndOfRun("ok", manifest')
    /\ since' = [ok |-> TRUE, opt |-> opt, added |-> {}]
    /\ RunOver
    /\ UNCHANGED <<catalog, disk, faults, runs, append_parent>>
    /\ UNCHANGED <<codecVars, cropVars>>

\* ---------------------------------------------------------------- cleanup.py

\* os.walk(output_dir): the files below it, each with the root the walk reports
\* (output_dir as given, joined with the sub-directories) and its name
WalkFiles(arg) ==
    LET top == Abspath(arg)
    IN  { [root |-> [abs |-> arg.abs,
                     parts |-> arg.parts \o SubSeq(f, Len(top) + 1, Len(f) - 1)],
           file |-> f[Len(f)]] :
          f \in {g \in disk : Len(g) > Len(top) /\ SubSeq(g, 1, Len(top)) = top} }

\* rel_file = os.path.join(os.path.relpath(root, "."), file)
RelFile(w) == Join(Relpath(w.root), w.file)

\* the files cleanup unlinks: those whose rel_file is no line of the list
Orphans(arg, lines) ==
    {Abspath(RelFile(w)) : w \in {v \in WalkFiles(arg) : RelFile(v) \notin lines}}

Cleanup(arg) ==
    /\ pc = "idle"
    /\ manifestExists
    /\ disk' = disk \ Orphans(arg, manifest)
    /\ since' = IF disk' # disk THEN NoSince ELSE since
    /\ UNCHANGED <<catalog, manifest, manifestExists, pc, opt, jobs, jstate, idx,
                   decodes, written, faults, runs, append_parent, lastRun>>
    /\ UNCHANGED <<codecVars, cropVars>>

\* ----------------------------------------------------------- specifications

vars == <<codecVars, cropVars, runVars>>

Init == CodecIdle /\ CropIdle /\ RunInit

Next ==
    \/ \E k \in 1..Len(RowTable) : AddRegion(k)
    \/ \E o \in Options : StartRun(o)
    \/ \E i \in 1..MaxRows : SaveFaceCheck(i)
    \/ \E i \in 1..MaxRows : SaveFaceExtract(i)
    \/ Collect
    \/ WriteManifest
    \/ \E arg \in OutputDirArgs : Cleanup(arg)

Spec == Init /\ [][Next]_vars

\* main goes on with its r.get() whenever the result it waits for is there
FairSpec == Spec /\ WF_vars(Collect)

NextCodec == Encode \/ Decode

InitCodec == CodecInit /\ CropIdle /\ RunInit

SpecCodec == InitCodec /\ [][NextCodec]_vars

NextCrop == ComputeBox

InitCrop == CropInit /\ CodecIdle /\ RunInit

SpecCrop == InitCrop /\ [][NextCrop]_vars

\* ------------------------------------------------------------ the claims

\* C7: for every n >= 0, base32_to_int(int2base32(n)) = n, and the token is
\* non-empty, over the alphabet 0-9A-V, most significant symbol first.
CodecRoundTrip ==
    /\ cpc # "in" =>
        /\ Len(ctoken) >= 1
        /\ \A k \in 1..Len(ctoken) : AlphabetFind(ctoken[k]) \in 0..31
        /\ AlphabetFind(ctoken[1]) = cn \div Pow32(Len(ctoken) - 1)
        /\ AlphabetFind(ctoken[Len(ctoken)]) = cn % 32
    /\ cpc = "decoded" => cback = cn

\* a digit-concatenation integer of several symbols went through both directions
CodecRoundTripWitness ==
    /\ cpc = "decoded"
    /\ cn = RegionNumber(<<1, 23, 4, 5>>)
    /\ Len(ctoken) = 3
    /\ cback = cn

\* C6: the box computed by save_face satisfies 0 <= x1 <= x2 <= W and
\* 0 <= y1 <= y2 <= H for every region with x, y >= 0 and width, height > 0,
\* also one that lies partly or wholly beyond the right or bottom edge.
CropBoxWithinImage ==
    gpc = "boxed" =>
        /\ 0 <= gbox[1] /\ gbox[1] <= gbox[3] /\ gbox[3] <= gin.size[1]
        /\ 0 <= gbox[2] /\ gbox[2] <= gbox[4] /\ gbox[4] <= gin.size[2]

\* the file a line of the list names
FileOf(line) == Abspath(line)

\* the latest run completed, and it was run right after a completed run with
\* the same options, no overwrite, and no file deleted in between
SecondOfTwoRuns ==
    /\ lastRun.status = "ok"
    /\ lastRun.after.ok
    /\ lastRun.after.opt = lastRun.opt
    /\ ~lastRun.opt.overwrite

\* C1: when one face region is added to the catalog between two completed
\* runs (overwrite=false, same output root and list), the second run makes
\* exactly one new file, and the list after it is the list after the first run
\* plus that file's path.
IncrementalOneNewFile ==
    ( /\ SecondOfTwoRuns
      /\ Cardinality(lastRun.after.added) = 1
      /\ \A k \in lastRun.after.added : Len(RowTable[k].rect) = 4 )
    => /\ Cardinality(lastRun.written) = 1
       /\ \E line \in lastRun.manEnd :
            /\ FileOf(line) \in lastRun.written
            /\ lastRun.manEnd = lastRun.manStart \cup {line}

\* C2: a second run with overwrite=false on an unchanged catalog and output
\* tree, after a first run that completed, leaves the list as it was and decodes
\* no image.
IdempotentRerun ==
    (SecondOfTwoRuns /\ lastRun.after.added = {})
    => /\ lastRun.manEnd = lastRun.manStart
       /\ lastRun.decodes = 0

\* a second run over a catalog that has jobs went through
IdempotentRerunWitness ==
    /\ SecondOfTwoRuns
    /\ lastRun.after.added = {}
    /\ Cardinality(catalog) >= 2
    /\ Cardinality(lastRun.manEnd) >= 2
    /\ runs = 2

\* C3: after any run, also one in which a job failed while others had written
\* their files, every file written during the run is in the list.
WrittenFilesAreListed ==
    lastRun.status \in {"ok", "crashed"} =>
        \A f \in lastRun.written : \E line \in lastRun.manEnd : FileOf(line) = f

\* C4: the lines of the list after a run are a superset of its lines before
\* the run.
ManifestNeverShrinks ==
    /\ lastRun.status \in {"ok", "crashed"} => lastRun.manStart \subseteq lastRun.manEnd
    /\ lastRun.status = "running" => lastRun.manStart = manifest
    /\ lastRun.status \in {"ok", "crashed"} => lastRun.manEnd \subseteq manifest

\* a run that found lines in the list completed and added a line of its own
ManifestNeverShrinksWitness ==
    /\ lastRun.status = "ok"
    /\ lastRun.manStart # {}
    /\ lastRun.manEnd # lastRun.manStart
    /\ lastRun.manStart \subseteq lastRun.manEnd

\* C5: the cleanup pass deletes exactly the files under the output root whose
\* path the extractor did not record in the list, whatever the form of the
\* output root: a recorded file stays, an unrecorded one goes.
CleanupDeletesExactlyUnrecorded ==
    [][ (pc = "idle" /\ pc' = "idle" /\ catalog' = catalog)
        => disk' = {f \in disk : \E line \in manifest : FileOf(line) = f} ]_vars

\* every job of the run has returned, raised or lost its worker: the pool has
\* no step left, and one job's open_image failed
DecodeFailedAllSettled ==
    /\ pc = "collect"
    /\ \A i \in 1..Len(jstate) : jstate[i] \in {"done", "raised", "lost"}
    /\ \E i \in 1..Len(jstate) : jstate[i] = "lost"

\* C8: when open_image fails in a pool worker, then, the other dispatched jobs
\* having come to their results, the run eventually ends, with a non-zero
\* status: main does not wait forever for the failed job's result.
DecodeErrorEndsRun ==
    DecodeFailedAllSettled ~> (pc = "idle" /\ lastRun.status = "crashed")

\* C9: two distinct jobs of one run (another image path or another region,
\* the same label) never have the same output path, so no two workers are
\* between the test for the file and its save on the same path.
UniqueOutputPaths ==
    \A i, j \in 1..Len(jobs) :
        ( /\ i # j
          /\ Len(jobs[i].face_region) = 4 /\ Len(jobs[j].face_region) = 4
          /\ jobs[i].tag_name = jobs[j].tag_name
          /\ \/ jobs[i].image_path # jobs[j].image_path
             \/ jobs[i].face_region # jobs[j].face_region )
        => /\ OutputPath(jobs[i], opt.output_dir) # OutputPath(jobs[j], opt.output_dir)
           /\ ~(jstate[i] = "extracting" /\ jstate[j] = "extracting")

\* C10: a row whose region text has fewer than four matches is reported while
\* the jobs are built: no job with fewer than four region fields is handed to
\* a worker, and no output path is derived from one.
NoMalformedJob ==
    \A i \in 1..Len(jobs) : Len(jobs[i].face_region) >= 4

====
